---- MODULE Spec2Model ----
(***************************************************************************)
(* Model of src/execution_engine.py: the signal decision function          *)
(* get_trade_signal, the order router execute_trade, the RSI of            *)
(* calculate_indicators and the polling loop run_strategy_cycle / main,    *)
(* together with the broker (open orders, fills, positions) and the        *)
(* market feed the loop polls.                                             *)
(*                                                                         *)
(* Units.  Oscillator (RSI) values are integers in tenths of a point       *)
(* (28.0 is 280).  Prices and trend averages are integers in 1/10000       *)
(* (1.1000 is 11000).  Cash is in whole dollars.                           *)
(***************************************************************************)
EXTENDS Integers, Sequences, FiniteSets, TLC

\* ------------------------------------------------------------------------
\* Configuration (lines 18-39 of the source)
\* ------------------------------------------------------------------------
BUY_ENTRY == 30
SELL_ENTRY == 70
EXIT_LONG_TARGET == 65
EXIT_SHORT_TARGET == 35
\* TRADE_ALLOCATION = 0.33, as hundredths
TRADE_ALLOCATION == 33
\* execute_trade's liquidity floor: total_cash < 1000
MIN_CASH == 1000
EMA_PERIOD == 200

\* SYMBOLS_MAP.items(), in insertion order
SYMBOLS == <<"EURUSD", "GBPUSD", "USDJPY">>

TradingModes == {"BOTH", "LONG_ONLY"}

\* Thresholds named by the specification's StrategyConfig that the source
\* does not define: panic thresholds (points) and the trend confirmation
\* buffer (basis points of the trend average).
PANIC_BUY_THRESHOLD == 15
PANIC_SELL_THRESHOLD == 85
TREND_BUFFER_BP == 10

\* ------------------------------------------------------------------------
\* Floating point values
\* ------------------------------------------------------------------------
\* The oscillator is a float and can be NaN (gain / loss with both 0).
NaN == -1

Tenths(x) == x * 10

\* Python float comparisons: every comparison with NaN is False.
FLt(a, b) == a # NaN /\ b # NaN /\ a < b
FLe(a, b) == a # NaN /\ b # NaN /\ a <= b
FGt(a, b) == a # NaN /\ b # NaN /\ a > b
FGe_nan_is_large(a, b) == b # NaN /\ (a = NaN \/ a >= b)
FGe(a, b) == a # NaN /\ b # NaN /\ a >= b

abs(x) == IF x < 0 THEN 0 - x ELSE x

\* ------------------------------------------------------------------------
\* Bounds of the model
\* ------------------------------------------------------------------------
\* NewBar events explored in one run
MaxBars == 1
\* orders routed to the broker in one run
MaxOrders == 3

\* Oscillator values of the polled market (tenths)
RsiValues == {280, 320, 660, 720}
\* Oscillator values <<previous, current>> of the last two bars of one pair
\* when the engine starts: an upward crossing, a downward crossing.  The
\* other pairs start at the current value with no crossing.
InitBars == {<<280, 320>>, <<720, 660>>}
\* last close of every pair, and trend averages below and above it
PriceValues == {11000}
EmaValues == {10000, 12000}
\* account cash balances get_cash_balance can return
CashValues == {500, 10000}

\* ------------------------------------------------------------------------
\* State
\* ------------------------------------------------------------------------
VARIABLES
    TRADING_MODE,  \* the safety switch, fixed at start-up
    market,        \* pair -> [prev, curr, price, ema]: last two bars' RSI,
                   \*         last close, last EMA, as the feed would give them
    seen,          \* pair -> RSI value read as current at its last evaluation
                   \*         (history, kept under ObservedSpec only)
    positions,     \* pair -> signed position held at the broker
    openOrders,    \* pair -> sequence of routed, unfilled market orders
    idx,           \* index in SYMBOLS of the pair the for loop is at; 0 = sleeping
    last,          \* what the latest loop iteration did
    nBars,         \* NewBar events so far
    nOrders,       \* orders routed so far
    sig_in,        \* arguments of the latest direct call of get_trade_signal
    sig_out,       \* its result
    df             \* closes of the frame calculate_indicators is given
                   \*         (kept under IndicatorSpec only)

vars == <<TRADING_MODE, market, seen, positions, openOrders, idx, last,
          nBars, nOrders, sig_in, sig_out, df>>

Pairs == {SYMBOLS[k] : k \in 1..Len(SYMBOLS)}

\* size=None, the default of execute_trade's size argument
SIZE_NONE == -1
NO_ORDER == <<>>
\* no frame, and the (None, None) of calculate_indicators
NO_FRAME == <<>>
NO_SERIES == <<>>
\* recorded for an iteration that did not call get_cash_balance
NOT_READ == NaN

\* ------------------------------------------------------------------------
\* get_trade_signal (lines 109-148)
\* ------------------------------------------------------------------------
CrossesUp_level(rsi_prev, rsi_curr) == FGe(rsi_curr, Tenths(BUY_ENTRY))

\* line 120: RSI crosses up past BUY_ENTRY
CrossesUp(rsi_prev, rsi_curr) ==
    FLt(rsi_prev, Tenths(BUY_ENTRY)) /\ FGe(rsi_curr, Tenths(BUY_ENTRY))

\* line 127: RSI crosses down past SELL_ENTRY
CrossesDown(rsi_prev, rsi_curr) ==
    FGt(rsi_prev, Tenths(SELL_ENTRY)) /\ FLe(rsi_curr, Tenths(SELL_ENTRY))

LongEntry_unfiltered(trend) == "ENTRY_LONG"

\* lines 121-124: the trend filter of a long entry
LongEntry(trend) == IF trend = "BULL" THEN "ENTRY_LONG" ELSE "HOLD"

ShortEntry_no_switch(trend) == IF trend = "BEAR" THEN "ENTRY_SHORT" ELSE "HOLD"

\* lines 129-134: the safety switch, then the trend filter of a short entry
ShortEntry(trend) ==
    IF TRADING_MODE = "LONG_ONLY" THEN "HOLD"
    ELSE IF trend = "BEAR" THEN "ENTRY_SHORT" ELSE "HOLD"

ExitSignal_entry_thresholds(rsi_curr, current_pos_size) ==
    IF current_pos_size > 0
    THEN IF FGe(rsi_curr, Tenths(SELL_ENTRY)) THEN "EXIT_LONG" ELSE "HOLD"
    ELSE IF current_pos_size < 0
         THEN IF FLe(rsi_curr, Tenths(BUY_ENTRY)) THEN "EXIT_SHORT" ELSE "HOLD"
         ELSE "HOLD"

\* lines 139-146: take profit on the position held
ExitSignal(rsi_curr, current_pos_size) ==
    IF current_pos_size > 0
    THEN IF FGe(rsi_curr, Tenths(EXIT_LONG_TARGET)) THEN "EXIT_LONG" ELSE "HOLD"
    ELSE IF current_pos_size < 0
         THEN IF FLe(rsi_curr, Tenths(EXIT_SHORT_TARGET)) THEN "EXIT_SHORT" ELSE "HOLD"
         ELSE "HOLD"

get_trade_signal_any_position(rsi_prev, rsi_curr, trend, current_pos_size) ==
    IF CrossesUp(rsi_prev, rsi_curr) THEN LongEntry(trend)
    ELSE IF CrossesDown(rsi_prev, rsi_curr) THEN ShortEntry(trend)
    ELSE ExitSignal(rsi_curr, current_pos_size)

get_trade_signal(rsi_prev, rsi_curr, trend, current_pos_size) ==
    IF current_pos_size = 0
    THEN IF CrossesUp(rsi_prev, rsi_curr) THEN LongEntry(trend)
         ELSE IF CrossesDown(rsi_prev, rsi_curr) THEN ShortEntry(trend)
         ELSE "HOLD"
    ELSE ExitSignal(rsi_curr, current_pos_size)

Trend_buffered(current_price, current_ema) ==
    IF FGt(current_price * 10000, current_ema * (10000 + TREND_BUFFER_BP))
    THEN "BULL" ELSE "BEAR"

\* run_strategy_cycle, line 190: the binary trend label
Trend(current_price, current_ema) ==
    IF FGt(current_price, current_ema) THEN "BULL" ELSE "BEAR"

\* ------------------------------------------------------------------------
\* execute_trade (lines 76-107)
\* ------------------------------------------------------------------------
\* pair_name.startswith('USD')
StartsWithUSD(pair_name) == pair_name \in {"USDJPY"}

\* int(total_cash * TRADE_ALLOCATION): the product of a whole dollar amount
\* and 0.33 rounds to the exact hundredth for the balances of CashValues.
IntSpendable(total_cash) == (total_cash * TRADE_ALLOCATION) \div 100

\* Inputs <<total_cash, price>> whose double quotient spendable / price
\* rounds to just below an exact integer quotient (3300.0 / 1.1 is
\* 2999.9999999999995), so that int() truncates to one unit less.
RoundsBelow == {<<10000, 11000>>}

\* int(spendable / price)
IntSpendableOverPrice(total_cash, price) ==
    LET num == total_cash * TRADE_ALLOCATION * 100
        q == num \div price
    IN IF num % price = 0 /\ <<total_cash, price>> \in RoundsBelow THEN q - 1 ELSE q

ReadsCash_always(size) == TRUE

\* execute_trade calls get_cash_balance on the entry path only (line 86)
ReadsCash(size) == size = SIZE_NONE

TradeQty_no_floor(pair_name, price, size, total_cash) ==
    IF size = SIZE_NONE
    THEN IF StartsWithUSD(pair_name) THEN IntSpendable(total_cash)
         ELSE IntSpendableOverPrice(total_cash, price)
    ELSE size

\* The quantity execute_trade computes (lines 82-101); 0 when it returns
\* early on the liquidity floor.
TradeQty(pair_name, price, size, total_cash) ==
    IF size = SIZE_NONE
    THEN IF total_cash < MIN_CASH THEN 0
         ELSE IF StartsWithUSD(pair_name) THEN IntSpendable(total_cash)
              ELSE IntSpendableOverPrice(total_cash, price)
    ELSE size

execute_trade_in_two_legs(pair_name, action, price, size, total_cash) ==
    LET qty == TradeQty(pair_name, price, size, total_cash)
    IN IF qty > 1
       THEN <<[action |-> action, totalQuantity |-> qty \div 2],
              [action |-> action, totalQuantity |-> qty - qty \div 2]>>
       ELSE IF qty > 0 THEN <<[action |-> action, totalQuantity |-> qty]>> ELSE NO_ORDER

\* The orders execute_trade places (lines 103-106): none, or one market
\* order MarketOrder(action, qty).
execute_trade(pair_name, action, price, size, total_cash) ==
    LET qty == TradeQty(pair_name, price, size, total_cash)
    IN IF qty > 0 THEN <<[action |-> action, totalQuantity |-> qty]>> ELSE NO_ORDER

\* ------------------------------------------------------------------------
\* run_strategy_cycle: one iteration of the for loop (lines 158-220)
\* ------------------------------------------------------------------------
\* What the broker session does to this iteration's calls: every call
\* returns, or the named call raises.
Faults == {"none", "bars", "positions", "cash", "order"}
\* Number of bars reqHistoricalData returns
BarCounts == {0, EMA_PERIOD, EMA_PERIOD + 1}
\* The combinations of the two that differ in what the iteration does
Sessions == {[n |-> EMA_PERIOD + 1, fault |-> f] : f \in Faults}
            \cup {[n |-> k, fault |-> "none"] : k \in BarCounts}

InsufficientData_short_by_one(n) == n < EMA_PERIOD

\* calculate_indicators, lines 55-56: the insufficient-data result
InsufficientData(n) == n < EMA_PERIOD + 1

OrderAction_always_buy(signal) == "BUY"

\* action and size arguments of the execute_trade call of each signal
\* (lines 203-217)
OrderAction(signal) ==
    IF signal \in {"ENTRY_LONG", "EXIT_SHORT"} THEN "BUY" ELSE "SELL"

OrderSize_allocated(signal, position_size) ==
    IF signal \in {"ENTRY_LONG", "ENTRY_SHORT"} THEN SIZE_NONE
    ELSE (abs(position_size) * TRADE_ALLOCATION) \div 100

OrderSize(signal, position_size) ==
    IF signal \in {"ENTRY_LONG", "ENTRY_SHORT"} THEN SIZE_NONE ELSE abs(position_size)

\* The body of the loop for one pair, to the point it ends on: the record
\* of what it did (n: the bars it was given, if the fetch returned).  n is
\* the number of bars fetched, fault the call that
\* raises (if reached), total_cash the balance get_cash_balance returns.
LoopBody(pair_name, n, fault, total_cash) ==
    LET m == market[pair_name]
        none == [pair |-> pair_name, status |-> "exception", signal |-> "NONE",
                 n |-> IF fault = "bars" THEN NOT_READ ELSE n,
                 seen_before |-> seen[pair_name], pos |-> 0, cash |-> NOT_READ,
                 orders |-> NO_ORDER]
        trend == Trend(m.price, m.ema)
        position_size == positions[pair_name]
        signal == get_trade_signal(m.prev, m.curr, trend, position_size)
        evald == [none EXCEPT !.status = "evaluated", !.signal = signal,
                              !.pos = position_size]
        orders == execute_trade(pair_name, OrderAction(signal), m.price,
                                OrderSize(signal, position_size), total_cash)
    IN IF fault = "bars" THEN none
       ELSE IF n = 0 THEN [none EXCEPT !.status = "no_data"]
       ELSE IF InsufficientData(n) THEN [none EXCEPT !.status = "buffering"]
       ELSE IF fault = "positions" THEN none
       ELSE IF signal = "HOLD" THEN evald
       ELSE IF fault = "cash" /\ ReadsCash(OrderSize(signal, position_size))
            THEN [evald EXCEPT !.status = "exception"]
       ELSE LET read == IF ReadsCash(OrderSize(signal, position_size))
                        THEN total_cash ELSE NOT_READ
            IN IF fault = "order" /\ orders # NO_ORDER
               THEN [evald EXCEPT !.status = "exception", !.cash = read]
               ELSE [evald EXCEPT !.orders = orders, !.cash = read]

NoCall == [rsi_prev |-> NaN, rsi_curr |-> NaN, price |-> 0, ema |-> 0, pos |-> 0]
NoIteration == [pair |-> "NONE", status |-> "NONE", signal |-> "NONE",
                n |-> NOT_READ, seen_before |-> NaN, pos |-> 0, cash |-> NOT_READ,
                orders |-> NO_ORDER]

\* ------------------------------------------------------------------------
\* Initial state: connected, flat, nothing routed, loop not yet entered
\* ------------------------------------------------------------------------
Init ==
    /\ TRADING_MODE \in TradingModes
    /\ \E a \in Pairs, b \in InitBars, e \in EmaValues, p \in PriceValues :
          market = [q \in Pairs |->
                       [prev |-> IF q = a THEN b[1] ELSE b[2], curr |-> b[2],
                        price |-> p, ema |-> e]]
    /\ seen = [q \in Pairs |-> NaN]
    /\ positions = [q \in Pairs |-> 0]
    /\ openOrders = [q \in Pairs |-> <<>>]
    /\ idx = 0
    /\ last = NoIteration
    /\ nBars = 0
    /\ nOrders = 0
    /\ sig_in = NoCall
    /\ sig_out = "NONE"
    /\ df = NO_FRAME

\* ------------------------------------------------------------------------
\* Actions of the engine
\* ------------------------------------------------------------------------
\* main, lines 237-239: the sleep is over, run_strategy_cycle is entered
StartCycle ==
    /\ idx = 0
    /\ idx' = 1
    /\ UNCHANGED <<TRADING_MODE, df, market, seen, positions, openOrders, last,
                   nBars, nOrders, sig_in, sig_out>>

\* ib.placeOrder: the broker queues the order.  The model keeps with each
\* queued order the signal it was routed for; nothing reads it but the
\* properties below.
Routed(orders, signal) ==
    [k \in 1..Len(orders) |->
        [action |-> orders[k].action, totalQuantity |-> orders[k].totalQuantity,
         signal |-> signal]]

Iteration_try_around_loop(observe) ==
    /\ idx \in 1..Len(SYMBOLS)
    /\ nOrders < MaxOrders
    /\ \E s \in Sessions, total_cash \in CashValues :
          LET pair_name == SYMBOLS[idx]
              r == LoopBody(pair_name, s.n, s.fault, total_cash)
          IN /\ last' = r
             /\ openOrders' = [openOrders EXCEPT ![pair_name] =
                                  @ \o Routed(r.orders, r.signal)]
             /\ nOrders' = nOrders + Len(r.orders)
             /\ seen' = IF observe /\ r.signal # "NONE"
                        THEN [seen EXCEPT ![pair_name] = market[pair_name].curr]
                        ELSE seen
             /\ idx' = IF idx = Len(SYMBOLS) \/ r.status = "exception"
                       THEN 0 ELSE idx + 1
    /\ UNCHANGED <<TRADING_MODE, df, market, positions, nBars, sig_in, sig_out>>

\* One iteration of the for loop, lines 158-220.  After the last pair the
\* cycle returns and main sleeps (lines 223, 239).  With observe, the
\* history variable seen records the value the iteration read as current.
Iteration(observe) ==
    /\ idx \in 1..Len(SYMBOLS)
    /\ nOrders < MaxOrders
    /\ \E s \in Sessions, total_cash \in CashValues :
          LET pair_name == SYMBOLS[idx]
              r == LoopBody(pair_name, s.n, s.fault, total_cash)
          IN /\ last' = r
             /\ openOrders' = [openOrders EXCEPT ![pair_name] =
                                  @ \o Routed(r.orders, r.signal)]
             /\ nOrders' = nOrders + Len(r.orders)
             /\ seen' = IF observe /\ r.signal # "NONE"
                        THEN [seen EXCEPT ![pair_name] = market[pair_name].curr]
                        ELSE seen
    /\ idx' = IF idx = Len(SYMBOLS) THEN 0 ELSE idx + 1
    /\ UNCHANGED <<TRADING_MODE, df, market, positions, nBars, sig_in, sig_out>>

Iterate == Iteration(FALSE)

IterateObserved == Iteration(TRUE)

\* ------------------------------------------------------------------------
\* Actions of the environment
\* ------------------------------------------------------------------------
\* The broker fills the oldest open market order of a pair.
Fill ==
    \E p \in Pairs :
       /\ openOrders[p] # <<>>
       /\ LET o == Head(openOrders[p])
          IN positions' = [positions EXCEPT ![p] =
                IF o.action = "BUY" THEN @ + o.totalQuantity ELSE @ - o.totalQuantity]
       /\ openOrders' = [openOrders EXCEPT ![p] = Tail(@)]
       /\ UNCHANGED <<TRADING_MODE, df, market, seen, idx, last, nBars, nOrders,
                      sig_in, sig_out>>

\* A 15 minute bar of a pair closes: the feed's last two bars shift.
NewBar ==
    /\ nBars < MaxBars
    /\ \E p \in Pairs, r \in RsiValues :
          market' = [market EXCEPT ![p] = [@ EXCEPT !.prev = market[p].curr, !.curr = r]]
    /\ nBars' = nBars + 1
    /\ UNCHANGED <<TRADING_MODE, df, seen, positions, openOrders, idx, last, nOrders,
                   sig_in, sig_out>>

Next == StartCycle \/ Iterate \/ Fill \/ NewBar

Spec == Init /\ [][Next]_vars

\* The same engine with the history variable seen kept
ObservedNext == StartCycle \/ IterateObserved \/ Fill \/ NewBar

ObservedSpec == Init /\ [][ObservedNext]_vars

\* ------------------------------------------------------------------------
\* get_trade_signal called directly, on inputs of its whole domain
\* ------------------------------------------------------------------------
\* Oscillator values around every threshold (tenths), and NaN
SigRsiValues == {NaN, 100, 149, 150, 280, 299, 300, 301, 305, 320, 349, 350, 351,
                 649, 650, 651, 660, 699, 700, 701, 720, 850, 851, 900}
\* Trend averages: far below the price 11000, within the buffer below it,
\* equal to it, above it
SigEmaValues == {10000, 10995, 11000, 12000}
SigPositions == {-3300, -1, 0, 1, 3300}

\* The arguments are drawn when the call is set up ...
SignalInit ==
    /\ TRADING_MODE \in TradingModes
    /\ market = [q \in Pairs |-> [prev |-> 280, curr |-> 280, price |-> 11000,
                                  ema |-> 10000]]
    /\ seen = [q \in Pairs |-> NaN]
    /\ positions = [q \in Pairs |-> 0]
    /\ openOrders = [q \in Pairs |-> <<>>]
    /\ idx = 0
    /\ last = NoIteration
    /\ nBars = 0
    /\ nOrders = 0
    /\ sig_in \in [rsi_prev : SigRsiValues, rsi_curr : SigRsiValues,
                   price : PriceValues, ema : SigEmaValues, pos : SigPositions]
    /\ sig_out = "NONE"
    /\ df = NO_FRAME

\* ... and the call is
\* signal = get_trade_signal(previous_rsi, current_rsi, trend, position_size)
\* with trend computed as on line 190
Decide ==
    /\ sig_out = "NONE"
    /\ df = NO_FRAME
    /\ sig_out' = get_trade_signal(sig_in.rsi_prev, sig_in.rsi_curr,
                                   Trend(sig_in.price, sig_in.ema), sig_in.pos)
    /\ UNCHANGED <<TRADING_MODE, df, market, seen, positions, openOrders, idx, last,
                   nBars, nOrders, sig_in>>

SignalNext == Decide

SignalSpec == SignalInit /\ [][SignalNext]_vars

\* ------------------------------------------------------------------------
\* run_strategy_cycle alone: ticks of the loop with no fill and no new bar
\* between them, on closes that include one larger than any spendable cash
\* ------------------------------------------------------------------------
\* Closes (ten-thousandths): 1.1000 and 4000.0000
TickPrices == {11000, 40000000}

TickInit ==
    /\ TRADING_MODE \in TradingModes
    /\ \E a \in Pairs, b \in InitBars, e \in EmaValues, p \in TickPrices :
          market = [q \in Pairs |->
                       [prev |-> IF q = a THEN b[1] ELSE b[2], curr |-> b[2],
                        price |-> p, ema |-> e]]
    /\ seen = [q \in Pairs |-> NaN]
    /\ positions = [q \in Pairs |-> 0]
    /\ openOrders = [q \in Pairs |-> <<>>]
    /\ idx = 0
    /\ last = NoIteration
    /\ nBars = 0
    /\ nOrders = 0
    /\ sig_in = NoCall
    /\ sig_out = "NONE"
    /\ df = NO_FRAME

TickNext == StartCycle \/ Iterate

TickSpec == TickInit /\ [][TickNext]_vars

\* ------------------------------------------------------------------------
\* calculate_indicators (lines 50-68) on frames of closes
\* ------------------------------------------------------------------------
RSI_PERIOD == 14

\* delta = df['close'].diff(): NaN at the first position, then the
\* difference of consecutive closes.  Position k is 1-based.
\* gain term: delta.where(delta > 0, 0) (0 for the NaN of position 1)
GainAt(frame, k) ==
    IF k = 1 THEN 0
    ELSE IF frame[k] - frame[k - 1] > 0 THEN frame[k] - frame[k - 1] ELSE 0

\* loss term: -delta.where(delta < 0, 0)
LossAt(frame, k) ==
    IF k = 1 THEN 0
    ELSE IF frame[k] - frame[k - 1] < 0 THEN frame[k - 1] - frame[k] ELSE 0

RECURSIVE GainSum(_, _, _)
\* the sum the rolling mean of gain divides by RSI_PERIOD, positions lo..hi
GainSum(frame, lo, hi) ==
    IF lo > hi THEN 0 ELSE GainAt(frame, hi) + GainSum(frame, lo, hi - 1)

RECURSIVE LossSum(_, _, _)
LossSum(frame, lo, hi) ==
    IF lo > hi THEN 0 ELSE LossAt(frame, hi) + LossSum(frame, lo, hi - 1)

\* rolling(window=RSI_PERIOD).mean() of gain and of loss at position k, as
\* the window's sum (both means divide by RSI_PERIOD, which cancels in rs)
WindowGain(frame, k) == GainSum(frame, k - RSI_PERIOD + 1, k)
WindowLoss(frame, k) == LossSum(frame, k - RSI_PERIOD + 1, k)

Rsi_zero_loss_undefined(frame, k) ==
    IF k < RSI_PERIOD THEN NaN
    ELSE LET g == WindowGain(frame, k)
             l == WindowLoss(frame, k)
         IN IF l = 0 THEN NaN ELSE (Tenths(100) * g) \div (g + l)

\* rs = gain / loss; rsi = 100 - (100 / (1 + rs)), in tenths truncated.
\* The rolling means are NaN while the window is incomplete; gain / 0.0 is
\* inf for gain > 0, which gives 100 - 0, and NaN for gain = 0.
Rsi(frame, k) ==
    IF k < RSI_PERIOD THEN NaN
    ELSE LET g == WindowGain(frame, k)
             l == WindowLoss(frame, k)
         IN IF l = 0 THEN (IF g = 0 THEN NaN ELSE Tenths(100))
            ELSE (Tenths(100) * g) \div (g + l)

\* lines 55-56: calculate_indicators returns (None, None)
ReturnsNone(frame) == InsufficientData(Len(frame))

\* The RSI series calculate_indicators returns, or None (the EMA series
\* is not modelled)
calculate_indicators(frame) ==
    IF ReturnsNone(frame) THEN NO_SERIES
    ELSE [k \in 1..Len(frame) |-> Rsi(frame, k)]

\* Frames the feed has when polling starts: a straight line of closes from
\* 1.1000, falling, flat or rising by one pip a bar, one bar longer than
\* the RSI window or one bar short of EMA_PERIOD
FrameLengths == {RSI_PERIOD + 1, EMA_PERIOD - 1}
FrameSlopes == {-1, 0, 1}
\* change of the close from one new bar to the next
BarDeltas == {-1, 0, 1, 2}
\* bars added to the frame in one run
MaxAppend == 3
\* positions held when the frame is evaluated
FramePositions == {-3300, 0, 3300}

IndicatorInit ==
    /\ TRADING_MODE \in TradingModes
    /\ market = [q \in Pairs |-> [prev |-> 280, curr |-> 280, price |-> 11000,
                                  ema |-> 10000]]
    /\ seen = [q \in Pairs |-> NaN]
    /\ positions = [q \in Pairs |-> 0]
    /\ openOrders = [q \in Pairs |-> <<>>]
    /\ idx = 0
    /\ last = NoIteration
    /\ nBars = 0
    /\ nOrders = 0
    /\ sig_in = NoCall
    /\ sig_out = "NONE"
    /\ \E n \in FrameLengths, d \in FrameSlopes :
          df = [k \in 1..n |-> 11000 + (k - 1) * d]

\* A bar closes and the frame reqHistoricalData returns is one bar longer.
AppendBar ==
    /\ nBars < MaxAppend
    /\ \E d \in BarDeltas : df' = Append(df, df[Len(df)] + d)
    /\ nBars' = nBars + 1
    /\ UNCHANGED <<TRADING_MODE, market, seen, positions, openOrders, idx, last,
                   nOrders, sig_in, sig_out>>

\* Lines 177-201 on the frame: calculate_indicators, the buffering branch
\* (rsi_series is None), the last two RSI values, the trend label and the
\* get_trade_signal call.
\* The EMA is not computed: an average on each side of the close is drawn.
Evaluate ==
    /\ \E e \in EmaValues, position_size \in FramePositions :
          LET rsi_series == calculate_indicators(df)
              n == Len(df)
          IN IF ReturnsNone(df)
             THEN sig_in' = NoCall /\ sig_out' = "NONE"
             ELSE /\ sig_in' = [rsi_prev |-> rsi_series[n - 1],
                                rsi_curr |-> rsi_series[n],
                                price |-> df[n], ema |-> e, pos |-> position_size]
                  /\ sig_out' = get_trade_signal(rsi_series[n - 1], rsi_series[n],
                                                 Trend(df[n], e), position_size)
    /\ UNCHANGED <<TRADING_MODE, df, market, seen, positions, openOrders, idx, last,
                   nBars, nOrders>>

IndicatorNext == AppendBar \/ Evaluate

IndicatorSpec == IndicatorInit /\ [][IndicatorNext]_vars

\* ------------------------------------------------------------------------
\* Properties of get_trade_signal, checked under SignalSpec
\* ------------------------------------------------------------------------
Called == sig_out # "NONE"
InFlat == sig_in.pos = 0
\* the crossings, as the specification's glossary defines them
InUp == /\ sig_in.rsi_prev # NaN /\ sig_in.rsi_curr # NaN
        /\ sig_in.rsi_prev < Tenths(BUY_ENTRY) /\ sig_in.rsi_curr >= Tenths(BUY_ENTRY)
InDown == /\ sig_in.rsi_prev # NaN /\ sig_in.rsi_curr # NaN
          /\ sig_in.rsi_prev > Tenths(SELL_ENTRY) /\ sig_in.rsi_curr <= Tenths(SELL_ENTRY)
InPanicBuy == sig_in.rsi_prev # NaN /\ sig_in.rsi_prev < Tenths(PANIC_BUY_THRESHOLD)
InPanicSell == sig_in.rsi_prev > Tenths(PANIC_SELL_THRESHOLD)
InAboveAverage == sig_in.price > sig_in.ema
\* price > trend_average * (1 + buffer)
InStrongBull == sig_in.price * 10000 > sig_in.ema * (10000 + TREND_BUFFER_BP)

\* C1: entry signals are returned only for position 0, EXIT_LONG only for
\* a positive position and EXIT_SHORT only for a negative position.
C1_SignalMatchesPosition ==
    /\ sig_out \in {"ENTRY_LONG", "ENTRY_SHORT"} => sig_in.pos = 0
    /\ sig_out = "EXIT_LONG" => sig_in.pos > 0
    /\ sig_out = "EXIT_SHORT" => sig_in.pos < 0

C1_Witness == sig_out = "EXIT_SHORT" /\ sig_in.pos < 0

\* C2: in LONG_ONLY mode ENTRY_SHORT is never returned, and every downward
\* crossing of SELL_ENTRY at position 0 yields HOLD, whatever the trend and
\* however extreme the previous value.
C2_LongOnlyNeverShort ==
    TRADING_MODE = "LONG_ONLY" =>
        /\ sig_out # "ENTRY_SHORT"
        /\ (Called /\ InFlat /\ InDown) => sig_out = "HOLD"

C2_Witness ==
    /\ TRADING_MODE = "LONG_ONLY" /\ InFlat /\ InDown /\ InPanicSell
    /\ ~InAboveAverage
    /\ sig_out = "HOLD"

\* C5: at position 0, ENTRY_LONG is returned only on prev < BUY_ENTRY <= curr
\* and ENTRY_SHORT only on prev > SELL_ENTRY >= curr; the pair (30.1, 30.5),
\* already past BUY_ENTRY, yields HOLD.
C5_EntryOnlyOnCrossing ==
    InFlat =>
        /\ sig_out = "ENTRY_LONG" => InUp
        /\ sig_out = "ENTRY_SHORT" => InDown
        /\ (Called /\ sig_in.rsi_prev = 301 /\ sig_in.rsi_curr = 305) => sig_out = "HOLD"

C5_Witness ==
    /\ InFlat /\ sig_in.rsi_prev = 299 /\ sig_in.rsi_curr = 301
    /\ sig_out = "ENTRY_LONG"

C8_ExitOnLevel ==
    Called =>
        /\ sig_in.pos > 0 =>
              sig_out = (IF sig_in.rsi_curr # NaN /\ sig_in.rsi_curr >= Tenths(EXIT_LONG_TARGET)
                         THEN "EXIT_LONG" ELSE "HOLD")
        /\ sig_in.pos < 0 =>
              sig_out = (IF sig_in.rsi_curr # NaN /\ sig_in.rsi_curr <= Tenths(EXIT_SHORT_TARGET)
                         THEN "EXIT_SHORT" ELSE "HOLD")

\* an exit with no crossing (the previous value is already past the
\* target), against the trend, in LONG_ONLY mode
C8_Witness ==
    /\ sig_in.pos > 0 /\ sig_in.rsi_prev = 900 /\ sig_in.rsi_curr = 650
    /\ ~InAboveAverage /\ TRADING_MODE = "LONG_ONLY"
    /\ sig_out = "EXIT_LONG"

\* ------------------------------------------------------------------------
\* Properties of the polling loop, checked under Spec (C4: ObservedSpec)
\* ------------------------------------------------------------------------
IsEntry(signal) == signal \in {"ENTRY_LONG", "ENTRY_SHORT"}
IsExit(signal) == signal \in {"EXIT_LONG", "EXIT_SHORT"}
\* this step is an iteration of the for loop
IterateStep == idx # 0 /\ idx' # idx
\* an entry order of the pair is routed and not yet filled
EntryUnfilled(p) == \E k \in 1..Len(openOrders[p]) : IsEntry(openOrders[p][k].signal)

\* C3 as claimed: no entry order is routed for a pair while an earlier entry
\* order of that pair is unfilled, or filled and still open as a position.
C3_OneEntryAtATime ==
    [][\A p \in Pairs :
          (/\ Len(openOrders'[p]) > Len(openOrders[p])
           /\ IsEntry(openOrders'[p][Len(openOrders'[p])].signal))
          => (positions[p] = 0 /\ ~EntryUnfilled(p))]_vars

\* C4 as claimed: an entry signal is emitted for a pair only if the value
\* read as current at the pair's previous evaluation was strictly on the
\* near side of the entry threshold; it is not emitted again while the
\* oscillator sits past the threshold.
C4_EntryOnlyOnFreshCrossing ==
    last.seen_before # NaN =>
        /\ last.signal = "ENTRY_LONG" => last.seen_before < Tenths(BUY_ENTRY)
        /\ last.signal = "ENTRY_SHORT" => last.seen_before > Tenths(SELL_ENTRY)

\* C9: an order routed for EXIT_LONG or EXIT_SHORT is the only order of its
\* iteration and its quantity is the absolute value of the position
\* snapshot the iteration read.
C9_ExitsAreFull ==
    (IsExit(last.signal) /\ last.orders # NO_ORDER) =>
        /\ Len(last.orders) = 1
        /\ last.pos # 0
        /\ last.orders[1].totalQuantity = abs(last.pos)

C9_Witness ==
    /\ last.signal = "EXIT_SHORT" /\ last.pos < 0
    /\ last.orders # NO_ORDER

\* C10: an iteration that reads previous 28, current 32, a price above the
\* trend average and position 0 yields ENTRY_LONG and, with cash at or
\* above the floor, one BUY order (3300 units of USDJPY for cash 10000); an
\* iteration that reads position +3300 and current 66 yields EXIT_LONG and
\* one SELL order of 3300.
C10_EndToEnd ==
    [][(IterateStep /\ last'.status = "evaluated") =>
          LET p == SYMBOLS[idx]
              m == market[p]
          IN /\ (m.prev = 280 /\ m.curr = 320 /\ m.price > m.ema /\ positions[p] = 0) =>
                    /\ last'.signal = "ENTRY_LONG"
                    /\ last'.cash >= MIN_CASH =>
                          /\ Len(last'.orders) = 1
                          /\ last'.orders[1].action = "BUY"
                          /\ (p = "USDJPY" /\ last'.cash = 10000) =>
                                 last'.orders[1].totalQuantity = 3300
             /\ (positions[p] = 3300 /\ m.curr = 660) =>
                    /\ last'.signal = "EXIT_LONG"
                    /\ last'.orders = <<[action |-> "SELL", totalQuantity |-> 3300]>>]_vars

\* the second cycle's iteration: the position bought on (28, 32) is sold on 66
C10_Witness ==
    /\ last.pair = "USDJPY" /\ last.status = "evaluated"
    /\ market["USDJPY"].prev = 320 /\ market["USDJPY"].curr = 660
    /\ last.signal = "EXIT_LONG" /\ last.pos = 3300
    /\ last.orders = <<[action |-> "SELL", totalQuantity |-> 3300]>>

\* ------------------------------------------------------------------------
\* Properties of the sizer and of the loop's failure handling
\* ------------------------------------------------------------------------
\* C11 as claimed: an entry order's quantity is floor(cash * allocation)
\* for a pair whose base currency is the home currency and
\* floor(cash * allocation / price) otherwise: 3300 and 3000 for cash 10000
\* at price 1.1000.
C11_EntryQuantity ==
    (IsEntry(last.signal) /\ last.orders # NO_ORDER) =>
        LET price == market[last.pair].price
            qty == last.orders[1].totalQuantity
        IN /\ qty = IF StartsWithUSD(last.pair)
                    THEN (last.cash * TRADE_ALLOCATION) \div 100
                    ELSE (last.cash * TRADE_ALLOCATION * 100) \div price
           /\ (last.cash = 10000 /\ price = 11000) =>
                 qty = IF StartsWithUSD(last.pair) THEN 3300 ELSE 3000

\* the index the for loop moves to after the pair at idx
NextIdx == IF idx = Len(SYMBOLS) THEN 0 ELSE idx + 1

\* C12: an entry whose cash balance is below the floor, or whose quantity
\* floor(cash * allocation) or floor(cash * allocation / price) is <= 0,
\* submits no order; the iteration ends without an exception and the loop
\* moves on to the next pair.
C12_SkipIsNoOp ==
    [][(/\ IterateStep /\ IsEntry(last'.signal) /\ last'.cash # NOT_READ
        /\ LET price == market[last'.pair].price
               floor_qty == IF StartsWithUSD(last'.pair)
                            THEN (last'.cash * TRADE_ALLOCATION) \div 100
                            ELSE (last'.cash * TRADE_ALLOCATION * 100) \div price
           IN last'.cash < MIN_CASH \/ floor_qty <= 0)
       => /\ last'.orders = NO_ORDER
          /\ openOrders' = openOrders
          /\ last'.status = "evaluated"
          /\ idx' = NextIdx]_vars

\* cash above the floor, a close above the spendable third of it: quantity
\* 0, nothing routed, the loop is at the second pair
C12_Witness ==
    /\ last.pair = "EURUSD" /\ last.signal = "ENTRY_LONG"
    /\ last.cash >= MIN_CASH /\ market["EURUSD"].price = 40000000
    /\ last.status = "evaluated" /\ last.orders = NO_ORDER
    /\ openOrders["EURUSD"] = <<>> /\ idx = 2

\* C13: an iteration whose price history is empty or shorter than
\* EMA_PERIOD + 1 bars ends on the no-data or the buffering branch:
\* get_trade_signal is not called and no order is routed for the pair.
C13_InsufficientHistory ==
    [][(IterateStep /\ last'.n # NOT_READ /\ last'.n < EMA_PERIOD + 1)
       => /\ last'.status = (IF last'.n = 0 THEN "no_data" ELSE "buffering")
          /\ last'.signal = "NONE"
          /\ last'.orders = NO_ORDER
          /\ openOrders' = openOrders]_vars

\* EMA_PERIOD bars of a flat pair whose last two oscillator values cross
\* BUY_ENTRY upward above the trend average: evaluated, it would enter
C13_Witness ==
    /\ last.n = EMA_PERIOD /\ last.status = "buffering" /\ last.pair = "EURUSD"
    /\ market["EURUSD"].prev = 280 /\ market["EURUSD"].curr = 320
    /\ market["EURUSD"].price > market["EURUSD"].ema
    /\ positions["EURUSD"] = 0 /\ openOrders["EURUSD"] = <<>>

\* C14: an iteration in which the history request, the positions read, the
\* cash read or the order submission raises ends that pair only: the loop
\* moves on to the next pair of the symbol map, whose iteration can run,
\* and after the last pair the tick is over.  Every iteration evaluates the
\* pair at the loop's index and moves the index by one, so a tick ends
\* after Len(SYMBOLS) iterations.
C14_FailureIsolated ==
    /\ []((last.status = "exception" /\ idx # 0) => ENABLED Iterate)
    /\ [][IterateStep =>
            /\ last'.pair = SYMBOLS[idx]
            /\ idx' = NextIdx
            /\ last'.status = "exception" => nOrders' = nOrders]_vars

\* the first pair's iteration raised with the history in hand (positions,
\* cash or order submission); the loop is at the second pair
C14_Witness ==
    /\ last.pair = "EURUSD" /\ last.status = "exception"
    /\ last.n = EMA_PERIOD + 1
    /\ idx = 2

\* ------------------------------------------------------------------------
\* Properties of calculate_indicators, checked under IndicatorSpec
\* ------------------------------------------------------------------------
IsFlat(frame) == \A k \in 2..Len(frame) : frame[k] = frame[1]
StrictlyIncreasing(frame) == \A k \in 2..Len(frame) : frame[k] > frame[k - 1]

\* C15 as claimed: when get_trade_signal is called on a frame of constant
\* closes, the previous and the current oscillator value it is handed are
\* defined, as is the oscillator at every position from the first full
\* window on: NaN does not reach the signal logic.
C15_FlatPriceTieBreak ==
    (Called /\ IsFlat(df)) =>
        /\ sig_in.rsi_prev # NaN
        /\ sig_in.rsi_curr # NaN
        /\ \A k \in RSI_PERIOD..Len(df) : Rsi(df, k) # NaN

Signals == {"HOLD", "ENTRY_LONG", "ENTRY_SHORT", "EXIT_LONG", "EXIT_SHORT"}

\* C16: an iteration that evaluates its pair gets exactly one of the five
\* signals, and an iteration routes at most one order, for its own pair
\* only: a BUY for ENTRY_LONG and EXIT_SHORT, a SELL for ENTRY_SHORT and
\* EXIT_LONG, nothing for HOLD and nothing when the pair is not evaluated.
\* A cycle has one iteration per pair, so that is one order per pair and
\* cycle at most.
C16_OneSignalOneOrder ==
    [][IterateStep =>
          LET p == SYMBOLS[idx]
              routed == SubSeq(openOrders'[p], Len(openOrders[p]) + 1, Len(openOrders'[p]))
          IN /\ last'.status = "evaluated" => last'.signal \in Signals
             /\ last'.signal \in Signals \cup {"NONE"}
             /\ \A q \in Pairs \ {p} : openOrders'[q] = openOrders[q]
             /\ SubSeq(openOrders'[p], 1, Len(openOrders[p])) = openOrders[p]
             /\ Len(routed) <= 1
             /\ last'.signal \in {"HOLD", "NONE"} => routed = <<>>
             /\ routed # <<>> =>
                   routed[1].action =
                      (IF last'.signal \in {"ENTRY_LONG", "EXIT_SHORT"} THEN "BUY" ELSE "SELL")]_vars

\* a short entry in BOTH mode: one SELL, the only open order of its pair
C16_Witness ==
    /\ last.signal = "ENTRY_SHORT" /\ last.status = "evaluated"
    /\ Len(last.orders) = 1 /\ last.orders[1].action = "SELL"
    /\ Len(openOrders[last.pair]) = 1
    /\ openOrders[last.pair][1].action = "SELL"

\* C17: on a frame of strictly increasing closes that is longer than the
\* RSI window, at every position from the first full window on the
\* window's losses sum to 0, its gains are positive and the oscillator is
\* exactly 100.
C17_RisingIsHundred ==
    (StrictlyIncreasing(df) /\ Len(df) >= RSI_PERIOD + 1) =>
        \A k \in RSI_PERIOD..Len(df) :
            /\ WindowLoss(df, k) = 0
            /\ WindowGain(df, k) > 0
            /\ Rsi(df, k) = Tenths(100)

\* a frame of EMA_PERIOD + 1 rising closes with steps of one and of two
\* pips, evaluated with a long position: both values read are 100
C17_Witness ==
    /\ StrictlyIncreasing(df) /\ Len(df) = EMA_PERIOD + 1
    /\ df[Len(df)] - df[Len(df) - 1] = 2
    /\ sig_in.price = df[Len(df)]
    /\ sig_in.rsi_prev = Tenths(100) /\ sig_in.rsi_curr = Tenths(100)
    /\ sig_in.pos > 0 /\ sig_out = "EXIT_LONG"

\* ------------------------------------------------------------------------
\* Properties of the loop against the broker, checked under Spec
\* ------------------------------------------------------------------------
RECURSIVE OpenSellQty(_)
\* total quantity of the SELL orders in a queue of open orders
OpenSellQty(orders) ==
    IF orders = <<>> THEN 0
    ELSE (IF Head(orders).action = "SELL" THEN Head(orders).totalQuantity ELSE 0)
         + OpenSellQty(Tail(orders))

\* C18 as claimed: in LONG_ONLY mode the SELL quantity submitted for a pair
\* never exceeds the BUY quantity filled for it, and the position never
\* goes negative.  Every pair starts flat and its position changes by
\* fills only, so BUY filled - SELL filled is the position, and SELL
\* submitted is SELL filled plus the SELL quantity still open.
C18_SellsCoveredByFills ==
    TRADING_MODE = "LONG_ONLY" =>
        \A p \in Pairs :
            /\ OpenSellQty(openOrders[p]) <= positions[p]
            /\ positions[p] >= 0

\* C19: an iteration that gets EXIT_LONG or EXIT_SHORT for a nonzero
\* position does not read the cash balance; unless the submission itself
\* raises it routes one order for the whole position, and it would route
\* the same order with any balance, below the floor included, and with a
\* get_cash_balance that raises.
C19_ExitsIgnoreCash ==
    [][(IterateStep /\ IsExit(last'.signal) /\ last'.pos # 0)
       => /\ last'.cash = NOT_READ
          /\ last'.status = "evaluated" =>
                /\ Len(last'.orders) = 1
                /\ last'.orders[1].totalQuantity = abs(last'.pos)
          /\ \A total_cash \in CashValues, fault \in {"none", "cash"} :
                LET r == LoopBody(SYMBOLS[idx], EMA_PERIOD + 1, fault, total_cash)
                IN /\ r.status = "evaluated"
                   /\ Len(r.orders) = 1
                   /\ r.orders[1].totalQuantity = abs(last'.pos)]_vars

\* a long position sold in full by an iteration that read no balance
C19_Witness ==
    /\ last.signal = "EXIT_LONG" /\ last.status = "evaluated"
    /\ last.pos > 0 /\ last.cash = NOT_READ
    /\ last.orders = <<[action |-> "SELL", totalQuantity |-> last.pos]>>

\* ------------------------------------------------------------------------
\* get_trade_signal on undefined oscillator values, checked under SignalSpec
\* ------------------------------------------------------------------------
\* C20 as claimed: if the current or the previous oscillator value is NaN,
\* get_trade_signal returns HOLD, for every position size and trend.
C20_UndefinedHolds ==
    (Called /\ (sig_in.rsi_curr = NaN \/ sig_in.rsi_prev = NaN)) => sig_out = "HOLD"

\* C20 as amended: if the current oscillator value is NaN, get_trade_signal
\* returns HOLD for every position size and trend, so an open position is
\* not exited while the current value stays undefined.  If only the
\* previous value is NaN it returns HOLD at position 0, and with an open
\* position the exit is decided by the current value alone: EXIT_LONG at
\* or above EXIT_LONG_TARGET for a long position, EXIT_SHORT at or below
\* EXIT_SHORT_TARGET for a short one.  The call always returns a signal.
C20_UndefinedCurrentHolds ==
    Called =>
        /\ sig_out \in Signals
        /\ sig_in.rsi_curr = NaN => sig_out = "HOLD"
        /\ (sig_in.rsi_prev = NaN /\ sig_in.pos = 0) => sig_out = "HOLD"
        /\ (sig_in.rsi_prev = NaN /\ sig_in.rsi_curr # NaN /\ sig_in.pos > 0) =>
              sig_out = (IF sig_in.rsi_curr >= Tenths(EXIT_LONG_TARGET)
                         THEN "EXIT_LONG" ELSE "HOLD")
        /\ (sig_in.rsi_prev = NaN /\ sig_in.rsi_curr # NaN /\ sig_in.pos < 0) =>
              sig_out = (IF sig_in.rsi_curr <= Tenths(EXIT_SHORT_TARGET)
                         THEN "EXIT_SHORT" ELSE "HOLD")

\* a long position, the previous value far above the exit target, the
\* current value undefined: held
C20_Witness ==
    /\ sig_in.rsi_curr = NaN /\ sig_in.rsi_prev = 900
    /\ sig_in.pos > 0 /\ sig_out = "HOLD"

\* reached under IndicatorSpec: 200 flat closes, then one higher close
PrevUndefinedExit ==
    /\ Len(df) = EMA_PERIOD + 1 /\ sig_in.price = df[Len(df)]
    /\ sig_in.rsi_prev = NaN /\ sig_in.rsi_curr = Tenths(100)
    /\ sig_in.pos > 0 /\ sig_out = "EXIT_LONG"

====
